---- MODULE Spec2Model ----
(***************************************************************************)
(* Model of the workout-choreo-creator server: the .song and .moves text   *)
(* formats (src/server/src/services/dsl.ts) and the part and move CRUD     *)
(* handlers that read-modify-write those files (src/server/src/routes).    *)
(*                                                                         *)
(* Strings are sequences of one-character strings, so that split, trim,    *)
(* the part-line regular expression and number formatting are computed as  *)
(* the code computes them.  A file on disk is one such sequence.           *)
(***************************************************************************)
EXTENDS Integers, Sequences, FiniteSets, TLC

VARIABLES
    songDisk,   \* content of the song's .song file
    songLoaded, \* what loadSongFile returns for the song: the parse of songDisk
    req,        \* the request that response answers
    res,        \* the HTTP response on its way to the client, if any
    nIds,       \* number of nanoid(10) calls answered so far
    movesDisk,  \* data/files/moves/all.moves: whether it exists, and its content
    movesRead,  \* what parseMovesFile returns for the file readMoves reads
    fin,        \* input of the pure function under check
    fout,       \* its output
    saved,      \* what the client was told is saved and has not changed since
    songDir,    \* the .song files of a directory of two songs, in readdir order
    pending,    \* requests the server has received and not yet handled
    card        \* one move card of the moves page: its text, refs and timer

vars ==
    <<songDisk, songLoaded, req, res, nIds, movesDisk, movesRead, fin, fout,
      saved, songDir, pending, card>>

\* What the single-song, one-request-at-a-time runs leave alone.
beside == <<songDir, pending, card>>

----------------------------------------------------------------------------
(* Bounds of the model.                                                    *)

\* Distance between two points of the time grid the requests use.
TimeStep == 5
\* nanoid is called at most MaxIds times in one behaviour.
MaxIds == 2
\* Longest string given to normalizeDescription.
MaxLen == 3
\* Most moves in a collection given to serializeMovesFile.
MaxMoves == 2
\* nanoid is called at most MaxMoveIds times by the moves handlers.
MaxMoveIds == 6

\* Largest number of lines of a text given to parseMovesFile on its own.
MaxLines == 5

\* Largest number of lines of the parts section given to parseSongFile on its
\* own.
MaxPartLines == 3

----------------------------------------------------------------------------
(* JavaScript strings.                                                     *)

\* Whitespace characters of the model's alphabet (String.prototype.trim, \s).
WS == {" ", "\n"}

DigitSeq == <<"0", "1", "2", "3", "4", "5", "6", "7", "8", "9">>
DigitSet == {DigitSeq[i] : i \in 1..10}
DigitVal(c) == (CHOOSE i \in 1..10 : DigitSeq[i] = c) - 1

UpperSeq == <<"A", "B", "C", "D", "E", "F", "G", "H", "I", "J", "K", "L", "M",
              "N", "O", "P", "Q", "R", "S", "T", "U", "V", "W", "X", "Y", "Z">>
LowerSeq == <<"a", "b", "c", "d", "e", "f", "g", "h", "i", "j", "k", "l", "m",
              "n", "o", "p", "q", "r", "s", "t", "u", "v", "w", "x", "y", "z">>

LowerChar(c) ==
    IF \E i \in 1..26 : UpperSeq[i] = c
    THEN LowerSeq[CHOOSE i \in 1..26 : UpperSeq[i] = c]
    ELSE c

\* String.prototype.toLowerCase
ToLower(s) == [i \in 1..Len(s) |-> LowerChar(s[i])]

RECURSIVE TrimStart(_)
TrimStart(s) ==
    IF s = <<>> \/ Head(s) \notin WS THEN s ELSE TrimStart(Tail(s))

RECURSIVE TrimEnd(_)
TrimEnd(s) ==
    IF s = <<>> \/ s[Len(s)] \notin WS THEN s
    ELSE TrimEnd(SubSeq(s, 1, Len(s) - 1))

\* String.prototype.trim
Trim(s) == TrimEnd(TrimStart(s))

\* String.prototype.indexOf for one character; 0 when absent, else 1-based.
IndexOf(s, c) ==
    LET hits == {i \in 1..Len(s) : s[i] = c}
    IN IF hits = {} THEN 0 ELSE CHOOSE i \in hits : \A j \in hits : i <= j

\* s.split("\n")
RECURSIVE SplitLines(_)
SplitLines(s) ==
    LET k == IndexOf(s, "\n")
    IN IF k = 0 THEN <<s>>
       ELSE <<SubSeq(s, 1, k - 1)>> \o SplitLines(SubSeq(s, k + 1, Len(s)))

\* Array.prototype.join
RECURSIVE Join(_, _)
Join(ss, sep) ==
    IF ss = <<>> THEN <<>>
    ELSE IF Len(ss) = 1 THEN ss[1]
    ELSE ss[1] \o sep \o Join(Tail(ss), sep)

\* String.prototype.startsWith
StartsWith(s, p) == Len(s) >= Len(p) /\ SubSeq(s, 1, Len(p)) = p

\* String.prototype.includes
Includes(s, sub) ==
    \E i \in 0..(Len(s) - Len(sub)) : SubSeq(s, i + 1, i + Len(sub)) = sub

\* The maximal run of non-whitespace characters at the start / end of s.
RECURSIVE FirstTok(_)
FirstTok(s) ==
    IF s = <<>> \/ Head(s) \in WS THEN <<>> ELSE <<Head(s)>> \o FirstTok(Tail(s))

RECURSIVE LastTok(_)
LastTok(s) ==
    IF s = <<>> \/ s[Len(s)] \in WS THEN <<>>
    ELSE LastTok(SubSeq(s, 1, Len(s) - 1)) \o <<s[Len(s)]>>

DropFirst(s, n) == SubSeq(s, n + 1, Len(s))
DropLast(s, n) == SubSeq(s, 1, Len(s) - n)

----------------------------------------------------------------------------
(* JavaScript numbers.  The model's numbers are integers.                  *)

\* Stand-in for NaN: a value outside the range of every number of the model.
NaN == 0 - 1000000

RECURSIVE NatToStr(_)
NatToStr(n) ==
    IF n < 10 THEN <<DigitSeq[n + 1]>>
    ELSE NatToStr(n \div 10) \o <<DigitSeq[(n % 10) + 1]>>

\* Numbers from 10^21 on are written in exponent form.  The model holds one
\* such number: E21 stands for 10^21, above every other time of the model.
E21 == 2000000000
DigitsE21 == <<"1", "0", "0", "0", "0", "0", "0", "0", "0", "0", "0", "0", "0", "0", "0", "0", "0", "0", "0", "0", "0", "0">>
TextE21 == <<"1", "e", "+", "2", "1">>

\* Number.prototype.toString as template literals apply it: `${n}`.
NumToStr(n) ==
    IF n = E21 THEN TextE21
    ELSE IF n < 0 THEN <<"-">> \o NatToStr(0 - n) ELSE NatToStr(n)

RECURSIVE DigitsVal(_)
DigitsVal(s) ==
    IF s = <<>> THEN 0
    ELSE 10 * DigitsVal(SubSeq(s, 1, Len(s) - 1)) + DigitVal(s[Len(s)])

RECURSIVE DigitPrefix(_)
DigitPrefix(s) ==
    IF s = <<>> \/ Head(s) \notin DigitSet THEN <<>>
    ELSE <<Head(s)>> \o DigitPrefix(Tail(s))

\* parseFloat: optional sign, then the longest run of digits; NaN when there
\* is no digit.  (No fraction is ever written by the model, and the only
\* run of more than nine digits is that of 10^21.)
ParseFloat(s) ==
    LET t == TrimStart(s)
        neg == t # <<>> /\ Head(t) = "-"
        body == IF t # <<>> /\ Head(t) \in {"-", "+"} THEN Tail(t) ELSE t
        ds == DigitPrefix(body)
        abs == IF ds = DigitsE21 THEN E21 ELSE DigitsVal(ds)
    IN IF ds = <<>> THEN NaN
       ELSE IF neg THEN 0 - abs ELSE abs

----------------------------------------------------------------------------
(* Song DSL: src/server/src/services/dsl.ts                                *)

S_Right == <<"R", "i", "g", "h", "t">>
S_Left == <<"L", "e", "f", "t">>
S_Centered == <<"C", "e", "n", "t", "e", "r", "e", "d">>
S_Body == <<"#", "B", "O", "D", "Y">>
S_Parts == <<"p", "a", "r", "t", "s", ":">>
S_name == <<"n", "a", "m", "e">>
S_artist == <<"a", "r", "t", "i", "s", "t">>
S_duration == <<"d", "u", "r", "a", "t", "i", "o", "n">>
S_bpm == <<"b", "p", "m">>
S_filepath == <<"f", "i", "l", "e", "p", "a", "t", "h">>
S_beats == <<"b", "e", "a", "t", "s">>
S_unknown == <<"u", "n", "k", "n", "o", "w", "n">>

\* type Stance = "Right" | "Left" | "Centered"
Stances == {S_Right, S_Left, S_Centered}

\* A token matching \d+\.?\d* in full.
\* A variant of the number group that differs from the code: it accepts a
\* sign.
IsNumTokSigned(t) ==
    LET u == IF t # <<>> /\ Head(t) = "-" THEN Tail(t) ELSE t
        ip == DigitPrefix(u)
        r1 == DropFirst(u, Len(ip))
        r2 == IF r1 # <<>> /\ Head(r1) = "." THEN Tail(r1) ELSE r1
    IN ip # <<>> /\ DigitPrefix(r2) = r2

IsNumTok(t) ==
    LET ip == DigitPrefix(t)
        r1 == DropFirst(t, Len(ip))
        r2 == IF r1 # <<>> /\ Head(r1) = "." THEN Tail(r1) ELSE r1
    IN ip # <<>> /\ DigitPrefix(r2) = r2

\* The text between the stance and the final @id token, as the lazy group
\* (.+?) between two greedy \s+ captures it; <<>> when the groups cannot match.
PartNameGroup(mid) ==
    IF Trim(mid) # <<>>
    THEN IF Head(mid) \in WS /\ mid[Len(mid)] \in WS THEN Trim(mid) ELSE <<>>
    ELSE IF Len(mid) >= 3 THEN <<mid[Len(mid) - 1]>> ELSE <<>>

\* PART_LINE_RE applied to a trimmed line:
\* /^(\d+\.?\d*)\s+(\d+\.?\d*)\s+(Right|Left|Centered)\s+(.+?)\s+@(\S+)$/
MatchPartLine(line) ==
    LET t1 == FirstTok(line)
        r1 == TrimStart(DropFirst(line, Len(t1)))
        t2 == FirstTok(r1)
        r2 == TrimStart(DropFirst(r1, Len(t2)))
        t3 == FirstTok(r2)
        r3 == DropFirst(r2, Len(t3))
        tl == LastTok(line)
        mid == DropLast(r3, Len(tl))
        nm == PartNameGroup(mid)
        ok == /\ IsNumTok(t1) /\ IsNumTok(t2) /\ t3 \in Stances
              /\ Len(tl) >= 2 /\ Head(tl) = "@"
              /\ Len(r3) > Len(tl)
              /\ nm # <<>>
    IN IF ok
       THEN [ok |-> TRUE,
             part |-> [startTime |-> ParseFloat(t1), endTime |-> ParseFloat(t2),
                       stance |-> t3, name |-> nm, id |-> Tail(tl)]]
       ELSE [ok |-> FALSE]

\* value.split(/\s+/).filter((v) => v.length > 0)
RECURSIVE SplitWS(_)
SplitWS(s) ==
    LET t == TrimStart(s)
        tok == FirstTok(t)
    IN IF t = <<>> THEN <<>> ELSE <<tok>> \o SplitWS(DropFirst(t, Len(tok)))

EmptySong ==
    [name |-> <<>>, artist |-> S_unknown, duration |-> 0, bpm |-> 0,
     filepath |-> <<>>, beats |-> <<>>, parts |-> <<>>]

\* One iteration of the loop of parseSongFile over `rawLine`.
SongLineStep(st, rawLine) ==
    LET trimmed == Trim(rawLine)
        spaceIndex == IndexOf(trimmed, " ")
        key == ToLower(SubSeq(trimmed, 1, spaceIndex - 1))
        value == Trim(DropFirst(trimmed, spaceIndex))
        m == MatchPartLine(trimmed)
        s == st.song
    IN IF trimmed = S_Body THEN [st EXCEPT !.inBody = TRUE]
       ELSE IF st.inBody
       THEN IF trimmed = S_Parts THEN [st EXCEPT !.inParts = TRUE]
            ELSE IF st.inParts /\ Len(trimmed) > 0 /\ m.ok
                 THEN [st EXCEPT !.song.parts = Append(s.parts, m.part)]
                 ELSE st
       ELSE IF Len(trimmed) = 0 \/ spaceIndex = 0 THEN st
       ELSE IF key = S_name THEN [st EXCEPT !.song.name = value]
       ELSE IF key = S_artist THEN [st EXCEPT !.song.artist = value]
       ELSE IF key = S_duration THEN [st EXCEPT !.song.duration = ParseFloat(value)]
       ELSE IF key = S_bpm THEN [st EXCEPT !.song.bpm = ParseFloat(value)]
       ELSE IF key = S_filepath THEN [st EXCEPT !.song.filepath = value]
       ELSE IF key = S_beats
            THEN [st EXCEPT !.song.beats =
                     LET ts == SplitWS(value)
                     IN [i \in 1..Len(ts) |-> ParseFloat(ts[i])]]
       ELSE st

RECURSIVE SongLoop(_, _)
SongLoop(st, lines) ==
    IF lines = <<>> THEN st ELSE SongLoop(SongLineStep(st, Head(lines)), Tail(lines))

parseSongFile(content) ==
    SongLoop([inBody |-> FALSE, inParts |-> FALSE, song |-> EmptySong],
             SplitLines(content)).song

\* `${part.startTime} ${part.endTime} ${part.stance} ${part.name} @${part.id}`
\* The times are given as already formatted text (see TimeText).
PartLine(startText, endText, stance, name, id) ==
    startText \o <<" ">> \o endText \o <<" ">> \o stance \o <<" ">> \o name
        \o <<" ", "@">> \o id

SongPartLine(p) ==
    PartLine(NumToStr(p.startTime), NumToStr(p.endTime), p.stance, p.name, p.id)

HeaderLines(song) ==
    << S_name \o <<" ">> \o song.name,
       S_artist \o <<" ">> \o song.artist,
       S_duration \o <<" ">> \o NumToStr(song.duration),
       S_bpm \o <<" ">> \o NumToStr(song.bpm),
       S_filepath \o <<" ">> \o song.filepath,
       S_beats \o <<" ">>
           \o Join([i \in 1..Len(song.beats) |-> NumToStr(song.beats[i])], <<" ">>) >>

\* serializeSongFile, with the part lines already rendered.
SerializeWithPartLines(song, partLines) ==
    Join(HeaderLines(song)
            \o (IF Len(partLines) > 0
                THEN <<<<>>, S_Body, S_Parts>> \o partLines
                ELSE <<>>),
         <<"\n">>) \o <<"\n">>

serializeSongFile(song) ==
    SerializeWithPartLines(song, [i \in 1..Len(song.parts) |-> SongPartLine(song.parts[i])])

----------------------------------------------------------------------------
(* Move DSL: src/server/src/services/dsl.ts                                *)

\* The separators of /[,\s]+/.
TagSep == WS \cup {","}

\* The maximal run of non-separator characters at the start of s.
RECURSIVE TagPrefix(_)
TagPrefix(s) ==
    IF s = <<>> \/ Head(s) \in TagSep THEN <<>> ELSE <<Head(s)>> \o TagPrefix(Tail(s))

\* .split(/[,\s]+/).map((t) => t.trim()).filter((t) => t.length > 0)
RECURSIVE SplitTags(_)
SplitTags(s) ==
    IF s = <<>> THEN <<>>
    ELSE IF Head(s) \in TagSep THEN SplitTags(Tail(s))
    ELSE <<TagPrefix(s)>> \o SplitTags(DropFirst(s, Len(TagPrefix(s))))

parseTags(line) == SplitTags(SelectSeq(line, LAMBDA c : c \notin {"[", "]"}))

\* The characters of the class [.!?;:,].
Punct == {".", "!", "?", ";", ":", ","}

\* s.replace(/[.!?;:,]+$/, "")
RECURSIVE StripTrailingPunct(_)
StripTrailingPunct(s) ==
    IF s = <<>> \/ s[Len(s)] \notin Punct THEN s
    ELSE StripTrailingPunct(DropLast(s, 1))

normalizeDescription(desc) ==
    LET trimmed == Trim(desc)
    IN IF trimmed = <<>> THEN trimmed ELSE ToLower(StripTrailingPunct(trimmed))

\* parseMoveBlock; `id` is what its call of nanoid(10) returns.
parseMoveBlock(text, id) ==
    LET split == SplitLines(text)
        lines == [i \in 1..Len(split) |-> Trim(split[i])]
        nameLine == lines[1]
        name == IF StartsWith(nameLine, <<"#">>) THEN Trim(Tail(nameLine)) ELSE nameLine
        description == IF Len(lines) >= 2 THEN lines[2] ELSE <<>>
        tagsLine == IF Len(lines) >= 3 THEN lines[3] ELSE <<>>
    IN [id |-> id, name |-> name, description |-> normalizeDescription(description),
        tags |-> parseTags(tagsLine)]

\* `# ${move.name}\n${move.description}\n${move.tags.join(", ")}`
serializeMoveBlock(move) ==
    <<"#", " ">> \o move.name \o <<"\n">> \o move.description \o <<"\n">>
        \o Join(move.tags, <<",", " ">>)

\* The result of parseMovesFile: the moves, or the error it throws and the
\* line number the error names (0 for the error at the end of the file).
Parsed(moves) == [ok |-> TRUE, moves |-> moves, error |-> "", line |-> 0]
Thrown(error, line) == [ok |-> FALSE, moves |-> <<>>, error |-> error, line |-> line]

\* One iteration of the loop of parseMovesFile over `rawLine`.  st.open says
\* that `current` is not null; st.error is non-empty once an error is thrown.
MovesLineStep(st, rawLine) ==
    LET line == Trim(rawLine)
        n == st.lineNum + 1
        at == [st EXCEPT !.lineNum = n]
        desc == IF Len(st.linesAfterName) >= 1 THEN st.linesAfterName[1] ELSE <<>>
        tagsLine == IF Len(st.linesAfterName) >= 2 THEN st.linesAfterName[2] ELSE <<>>
    IN IF st.error # "" THEN st
       ELSE IF Len(line) = 0 /\ ~st.open THEN at
       ELSE IF StartsWith(line, <<"#">>)
       THEN IF st.open THEN [at EXCEPT !.error = "new move before @id"]
            ELSE [at EXCEPT !.open = TRUE, !.name = Trim(Tail(line)),
                            !.linesAfterName = <<>>]
       ELSE IF StartsWith(line, <<"@">>)
       THEN IF ~st.open THEN [at EXCEPT !.error = "@id without # name"]
            ELSE [at EXCEPT !.open = FALSE,
                            !.moves = Append(st.moves,
                                [id |-> Tail(line), name |-> st.name,
                                 description |-> normalizeDescription(desc),
                                 tags |-> parseTags(tagsLine)])]
       ELSE IF ~st.open THEN [at EXCEPT !.error = "content outside a move block"]
       ELSE [at EXCEPT !.linesAfterName = Append(st.linesAfterName, line)]

RECURSIVE MovesLoop(_, _)
MovesLoop(st, lines) ==
    IF lines = <<>> THEN st ELSE MovesLoop(MovesLineStep(st, Head(lines)), Tail(lines))

\* Variants of parseMovesFile that differ from the code: one counts the
\* lines from 0, one accepts the end of the input inside a block, one returns
\* the moves read so far when it meets content outside a block.
parseMovesFileZeroBased(content) ==
    LET st == MovesLoop([moves |-> <<>>, open |-> FALSE, name |-> <<>>,
                         linesAfterName |-> <<>>, lineNum |-> 0, error |-> ""],
                        SplitLines(content))
    IN IF st.error # "" THEN Thrown(st.error, st.lineNum - 1)
       ELSE IF st.open THEN Thrown("file ended without @id", 0)
       ELSE Parsed(st.moves)

parseMovesFileOpenEnd(content) ==
    LET st == MovesLoop([moves |-> <<>>, open |-> FALSE, name |-> <<>>,
                         linesAfterName |-> <<>>, lineNum |-> 0, error |-> ""],
                        SplitLines(content))
    IN IF st.error # "" THEN Thrown(st.error, st.lineNum)
       ELSE Parsed(st.moves)

parseMovesFileLenient(content) ==
    LET st == MovesLoop([moves |-> <<>>, open |-> FALSE, name |-> <<>>,
                         linesAfterName |-> <<>>, lineNum |-> 0, error |-> ""],
                        SplitLines(content))
    IN IF st.error = "content outside a move block" THEN Parsed(st.moves)
       ELSE IF st.error # "" THEN Thrown(st.error, st.lineNum)
       ELSE IF st.open THEN Thrown("file ended without @id", 0)
       ELSE Parsed(st.moves)

parseMovesFile(content) ==
    LET st == MovesLoop([moves |-> <<>>, open |-> FALSE, name |-> <<>>,
                         linesAfterName |-> <<>>, lineNum |-> 0, error |-> ""],
                        SplitLines(content))
    IN IF st.error # "" THEN Thrown(st.error, st.lineNum)
       ELSE IF st.open THEN Thrown("file ended without @id", 0)
       ELSE Parsed(st.moves)

serializeMovesFile(moves) ==
    Join([i \in 1..Len(moves) |->
             serializeMoveBlock(moves[i]) \o <<"\n", "@">> \o moves[i].id],
         <<"\n", "\n">>) \o <<"\n">>

----------------------------------------------------------------------------
(* Parts CRUD: src/server/src/routes/songs.ts                              *)

\* An optional request field is <<>> (undefined) or <<value>>.
Undefined == <<>>
Some(v) == <<v>>

\* The one row of the songs table and the song file written at download.
DbSongId == 1
DbFilepath == <<"s", ".", "w", "a", "v">>
DownloadedSong == [EmptySong EXCEPT !.name = <<"S">>, !.filepath = DbFilepath]

\* The id the k-th call of nanoid(10) returns: fresh, without whitespace.
IdText(k) == <<"i">> \o NatToStr(k)

\* UTF-16 code units of the characters that occur in decimal numerals.
CharCode(c) == IF c = "-" THEN 45 ELSE 48 + DigitVal(c)

\* a < b for two strings (code unit order).
RECURSIVE StrLess(_, _)
StrLess(a, b) ==
    IF b = <<>> THEN FALSE
    ELSE IF a = <<>> THEN TRUE
    ELSE IF Head(a) # Head(b) THEN CharCode(Head(a)) < CharCode(Head(b))
    ELSE StrLess(Tail(a), Tail(b))

\* JavaScript a <= b, where a value is the number n or, when its flag is set,
\* the string NumToStr(n): two strings compare as strings, any other pair as
\* numbers.
JsLessEq(a, aIsText, b, bIsText) ==
    IF aIsText /\ bIsText
    THEN NumToStr(a) = NumToStr(b) \/ StrLess(NumToStr(a), NumToStr(b))
    ELSE a <= b

\* findSongFilePath over a songs directory holding the one file, then the
\* read and parse of loadSongFile.
loadSongFile(disk, songId) ==
    IF songId # DbSongId THEN [found |-> FALSE]
    ELSE IF ~Includes(disk, DbFilepath) THEN [found |-> FALSE]
    ELSE [found |-> TRUE, songFile |-> parseSongFile(disk)]

\* Variants of partsOverlap that differ from the code: one only sees a
\* candidate that starts inside the other part, one also counts parts that
\* touch.
partsOverlapStartInside(a, b) == b.startTime <= a.startTime /\ a.startTime < b.endTime
partsOverlapTouching(a, b) == a.startTime <= b.endTime /\ a.endTime >= b.startTime

partsOverlap(a, b) == a.startTime < b.endTime /\ a.endTime > b.startTime

\* parts.sort((a, b) => a.startTime - b.startTime): a stable sort.
RECURSIVE InsertByStart(_, _)
InsertByStart(sorted, p) ==
    IF sorted = <<>> THEN <<p>>
    ELSE IF sorted[Len(sorted)].startTime <= p.startTime THEN Append(sorted, p)
    ELSE Append(InsertByStart(SubSeq(sorted, 1, Len(sorted) - 1), p),
                sorted[Len(sorted)])

RECURSIVE SortByStart(_)
SortByStart(ps) ==
    IF ps = <<>> THEN <<>>
    ELSE InsertByStart(SortByStart(SubSeq(ps, 1, Len(ps) - 1)), ps[Len(ps)])

\* The elements of a sequence, as a set.
Range(seq) == {seq[i] : i \in DOMAIN seq}

\* The least index of the set `hits`, 0 when it is empty: what findIndex and
\* a loop that returns at its first hit give, 1-based.
FirstIndex(hits) ==
    IF hits = {} THEN 0 ELSE CHOOSE i \in hits : \A j \in hits : i <= j

Response(op, status, errName, body) ==
    [op |-> op, status |-> status, errName |-> errName, body |-> body]

\* A request body is [name, startTime, endTime, stance, timesAsText]: the
\* first four are optional, timesAsText says that the times it carries were
\* sent as JSON strings (of decimal digits) and not as JSON numbers.

\* POST /:id/parts.  `loaded` is the value of loadSongFile(req.params.id) on
\* `disk`.  The result is the file content after the request and the response.
PostPart(disk, loaded, body, newId) ==
    LET parts == loaded.songFile.parts
        newRange == [startTime |-> body.startTime[1], endTime |-> body.endTime[1]]
        hit == FirstIndex({i \in DOMAIN parts : partsOverlap(newRange, parts[i])})
        part == [id |-> newId, name |-> Trim(body.name[1]),
                 startTime |-> body.startTime[1], endTime |-> body.endTime[1],
                 stance |-> body.stance[1]]
        song == [loaded.songFile EXCEPT !.parts = SortByStart(Append(parts, part))]
    IN IF body.name = Undefined \/ body.name[1] = <<>>
       THEN [disk |-> disk, res |-> Response("createPart", 400, <<>>, <<>>)]
       ELSE IF \/ body.startTime = Undefined \/ body.endTime = Undefined
               \/ body.timesAsText
               \/ body.endTime[1] <= body.startTime[1]
       THEN [disk |-> disk, res |-> Response("createPart", 400, <<>>, <<>>)]
       ELSE IF body.stance = Undefined \/ body.stance[1] \notin Stances
       THEN [disk |-> disk, res |-> Response("createPart", 400, <<>>, <<>>)]
       ELSE IF ~loaded.found
       THEN [disk |-> disk, res |-> Response("createPart", 404, <<>>, <<>>)]
       ELSE IF hit # 0
       THEN [disk |-> disk, res |-> Response("createPart", 409, parts[hit].name, <<>>)]
       ELSE [disk |-> serializeSongFile(song),
             res |-> Response("createPart", 201, <<>>, <<part>>)]

\* PUT /:id/parts/:partId
PutPart(disk, loaded, partId, body) ==
    LET parts == loaded.songFile.parts
        partIndex == FirstIndex({i \in DOMAIN parts : parts[i].id = partId})
        old == parts[partIndex]
        startText == body.startTime # Undefined /\ body.timesAsText
        endText == body.endTime # Undefined /\ body.timesAsText
        part == [id |-> old.id,
                 name |-> IF body.name # Undefined THEN Trim(body.name[1]) ELSE old.name,
                 stance |-> IF body.stance # Undefined THEN body.stance[1] ELSE old.stance,
                 startTime |-> IF body.startTime # Undefined
                               THEN body.startTime[1] ELSE old.startTime,
                 endTime |-> IF body.endTime # Undefined
                             THEN body.endTime[1] ELSE old.endTime]
        others == {i \in 1..Len(parts) : i # partIndex /\ partsOverlap(part, parts[i])}
        hit == CHOOSE i \in others : \A j \in others : i <= j
        song == [loaded.songFile EXCEPT
                    !.parts = SortByStart([parts EXCEPT ![partIndex] = part])]
    IN IF ~loaded.found
       THEN [disk |-> disk, res |-> Response("updatePart", 404, <<>>, <<>>)]
       ELSE IF partIndex = 0
       THEN [disk |-> disk, res |-> Response("updatePart", 404, <<>>, <<>>)]
       ELSE IF body.stance # Undefined /\ body.stance[1] \notin Stances
       THEN [disk |-> disk, res |-> Response("updatePart", 400, <<>>, <<>>)]
       ELSE IF JsLessEq(part.endTime, endText, part.startTime, startText)
       THEN [disk |-> disk, res |-> Response("updatePart", 400, <<>>, <<>>)]
       ELSE IF others # {}
       THEN [disk |-> disk, res |-> Response("updatePart", 409, parts[hit].name, <<>>)]
       ELSE [disk |-> serializeSongFile(song),
             res |-> Response("updatePart", 200, <<>>, <<part>>)]

\* DELETE /:id/parts/:partId
DeletePart(disk, loaded, partId) ==
    LET parts == loaded.songFile.parts
        partIndex == FirstIndex({i \in DOMAIN parts : parts[i].id = partId})
        song == [loaded.songFile EXCEPT
                    !.parts = SubSeq(parts, 1, partIndex - 1)
                                  \o SubSeq(parts, partIndex + 1, Len(parts))]
    IN IF ~loaded.found
       THEN [disk |-> disk, res |-> Response("deletePart", 404, <<>>, <<>>)]
       ELSE IF partIndex = 0
       THEN [disk |-> disk, res |-> Response("deletePart", 404, <<>>, <<>>)]
       ELSE [disk |-> serializeSongFile(song),
             res |-> Response("deletePart", 200, <<>>, <<>>)]

\* GET /:id/parts: the body of the response is the list of parts.
GetParts(disk, loaded) ==
    IF ~loaded.found
    THEN [disk |-> disk, res |-> Response("fetchParts", 404, <<>>, <<>>)]
    ELSE [disk |-> disk,
          res |-> Response("fetchParts", 200, <<>>, loaded.songFile.parts)]

----------------------------------------------------------------------------
(* Moves CRUD: src/server/src/routes/moves.ts                              *)

\* SEED_MOVES, cut to its first two moves with shortened descriptions and tag
\* lists; the ids are the ones nanoid gave when the module was loaded.
SEED_MOVES ==
    << [id |-> <<"s", "1">>, name |-> <<"j", "a", "b">>,
        description |-> <<"Q", "u", "i", "c", "k", ",", " ", "s", "t", "r", "a", "i", "g", "h", "t">>, tags |-> <<<<"p", "u", "n", "c", "h">>, <<"b", "a", "s", "i", "c">>>>],
       [id |-> <<"s", "2">>, name |-> <<"c", "r", "o", "s", "s">>,
        description |-> <<"P", "o", "w", "e", "r", "f", "u", "l">>, tags |-> <<<<"p", "u", "n", "c", "h">>>>] >>

\* The moves file: absent before the first run, else its content.
NoMovesFile == [exists |-> FALSE, content |-> <<>>]
MovesFile(content) == [exists |-> TRUE, content |-> content]

ensureMovesFile(disk) ==
    IF disk.exists THEN disk ELSE MovesFile(serializeMovesFile(SEED_MOVES))

\* readMoves: the file after ensureMovesFile, and the parse of its content.
readMoves(disk) ==
    [disk |-> ensureMovesFile(disk),
     parsed |-> parseMovesFile(ensureMovesFile(disk).content)]

writeMoves(moves) == MovesFile(serializeMovesFile(moves))

\* Variants of the duplicate test of POST / that differ from the code: one
\* compares the names as they are written, one never finds a duplicate.
SameNameExact(a, b) == a = b
SameNameNever(a, b) == FALSE

\* m.name.toLowerCase() === nameLower
SameName(a, b) == ToLower(a) = ToLower(b)

\* POST /.  `parsed` is what parseMovesFile returns for the file readMoves
\* reads on `disk`; id1 and id2 are the ids of the two calls of nanoid.
PostMove(disk, parsed, raw, id1, id2) ==
    LET move == [parseMoveBlock(raw, id1) EXCEPT !.id = id2]
        moves == parsed.moves
        duplicate == FirstIndex({i \in DOMAIN moves : SameName(moves[i].name, move.name)})
    IN IF raw = <<>>
       THEN [disk |-> disk, res |-> Response("createMove", 400, <<>>, <<>>)]
       ELSE IF Trim(move.name) = <<>>
       THEN [disk |-> disk, res |-> Response("createMove", 400, <<>>, <<>>)]
       ELSE IF ~parsed.ok
       THEN [disk |-> ensureMovesFile(disk),
             res |-> Response("createMove", 500, <<>>, <<>>)]
       ELSE IF duplicate # 0
       THEN [disk |-> ensureMovesFile(disk),
             res |-> Response("createMove", 409, move.name, <<>>)]
       ELSE [disk |-> writeMoves(Append(moves, move)),
             res |-> Response("createMove", 201, <<>>, <<move>>)]

\* A variant of PUT /:id that differs from the code: it refuses a name that
\* another move carries.
PutMoveChecked(disk, parsed, id, raw, id1) ==
    LET updatedMove == parseMoveBlock(raw, id1)
        moves == parsed.moves
        index == FirstIndex({i \in DOMAIN moves : moves[i].id = id})
        taken == \E i \in 1..Len(moves) :
                    i # index /\ SameName(moves[i].name, updatedMove.name)
    IN IF raw = <<>> \/ Trim(updatedMove.name) = <<>>
       THEN [disk |-> disk, res |-> Response("updateMove", 400, <<>>, <<>>)]
       ELSE IF ~parsed.ok
       THEN [disk |-> ensureMovesFile(disk),
             res |-> Response("updateMove", 500, <<>>, <<>>)]
       ELSE IF index = 0
       THEN [disk |-> ensureMovesFile(disk),
             res |-> Response("updateMove", 404, <<>>, <<>>)]
       ELSE IF taken
       THEN [disk |-> ensureMovesFile(disk),
             res |-> Response("updateMove", 409, updatedMove.name, <<>>)]
       ELSE [disk |-> writeMoves([moves EXCEPT
                                     ![index] = [updatedMove EXCEPT !.id = moves[index].id]]),
             res |-> Response("updateMove", 200, <<>>,
                              <<[updatedMove EXCEPT !.id = moves[index].id]>>)]

\* PUT /:id
PutMove(disk, parsed, id, raw, id1) ==
    LET updatedMove == parseMoveBlock(raw, id1)
        moves == parsed.moves
        index == FirstIndex({i \in DOMAIN moves : moves[i].id = id})
        stored == [updatedMove EXCEPT !.id = moves[index].id]
    IN IF raw = <<>>
       THEN [disk |-> disk, res |-> Response("updateMove", 400, <<>>, <<>>)]
       ELSE IF Trim(updatedMove.name) = <<>>
       THEN [disk |-> disk, res |-> Response("updateMove", 400, <<>>, <<>>)]
       ELSE IF ~parsed.ok
       THEN [disk |-> ensureMovesFile(disk),
             res |-> Response("updateMove", 500, <<>>, <<>>)]
       ELSE IF index = 0
       THEN [disk |-> ensureMovesFile(disk),
             res |-> Response("updateMove", 404, <<>>, <<>>)]
       ELSE [disk |-> writeMoves([moves EXCEPT ![index] = stored]),
             res |-> Response("updateMove", 200, <<>>, <<stored>>)]

\* DELETE /:id
DeleteMove(disk, parsed, id) ==
    LET moves == parsed.moves
        index == FirstIndex({i \in DOMAIN moves : moves[i].id = id})
    IN IF ~parsed.ok
       THEN [disk |-> ensureMovesFile(disk),
             res |-> Response("deleteMove", 500, <<>>, <<>>)]
       ELSE IF index = 0
       THEN [disk |-> ensureMovesFile(disk),
             res |-> Response("deleteMove", 404, <<>>, <<>>)]
       ELSE [disk |-> writeMoves(SubSeq(moves, 1, index - 1)
                                     \o SubSeq(moves, index + 1, Len(moves))),
             res |-> Response("deleteMove", 200, <<>>, <<moves[index]>>)]

\* What GET / lists of one move.
MoveEntry(m) == [id |-> m.id, name |-> m.name, raw |-> serializeMoveBlock(m)]

\* A variant of GET / that differs from the code: it answers with the moves
\* it has when the file could not be parsed.
GetMovesLenient(disk, parsed, tag) ==
    [disk |-> ensureMovesFile(disk),
     res |-> Response("fetchMoves", 200, <<>>,
                      [i \in DOMAIN parsed.moves |-> MoveEntry(parsed.moves[i])])]

\* GET /, with the optional ?tag= of the query.
GetMoves(disk, parsed, tag) ==
    LET tagLower == ToLower(tag[1])
        HasTag(m) == \E i \in DOMAIN m.tags : ToLower(m.tags[i]) = tagLower
        moves == IF tag # Undefined /\ tag[1] # <<>>
                 THEN SelectSeq(parsed.moves, HasTag) ELSE parsed.moves
    IN IF ~parsed.ok
       THEN [disk |-> ensureMovesFile(disk),
             res |-> Response("fetchMoves", 500, <<>>, <<>>)]
       ELSE [disk |-> ensureMovesFile(disk),
             res |-> Response("fetchMoves", 200, <<>>,
                              [i \in DOMAIN moves |-> MoveEntry(moves[i])])]

----------------------------------------------------------------------------
(* The parts API driven by requests on the downloaded song.                *)

\* Points of the time grid the requests use.
Times == {0, TimeStep, 2 * TimeStep}

NameA == <<"A">>
NameB == <<"B">>
\* A name carrying a line break followed by text shaped like a part line.
NameTwoLines ==
    <<"x", " ", "@", "y", "\n", "0", " ", "9", " ", "L", "e", "f", "t", " ", "z">>
\* A name whose second line has the end time 10^21.
NameLongLine ==
    <<"x", " ", "@", "y", "\n", "0", " ", "1", "0", "0", "0", "0", "0", "0", "0", "0", "0", "0", "0", "0", "0", "0", "0", "0", "0", "0", "0", "0", "0", " ", "L", "e", "f", "t", " ", "z">>
\* A name whose text after the line break is not shaped like a part line.
NameBreak == <<"x", " ", "@", "y", "\n", "z">>
S_Up == <<"U", "p">>

SongIds == {DbSongId, DbSongId + 1}
PartIds == {IdText(k) : k \in 1..MaxIds}

CreateBodies ==
    [name : {Undefined, Some(NameA), Some(NameTwoLines)},
     startTime : {Some(t) : t \in Times}, endTime : {Some(t) : t \in Times},
     stance : {Some(S_Left), Some(S_Up)}, timesAsText : BOOLEAN]

\* The client sends { name, stance } and { stance } updates from the part's
\* menus and { startTime, endTime } updates from a drag (SongDesignerView,
\* PartPill); every subset of either group is drawn.
UpdateBodies ==
    [name : {Undefined, Some(NameB)},
     stance : {Undefined, Some(S_Centered), Some(S_Up)},
     startTime : {Undefined}, endTime : {Undefined}, timesAsText : {FALSE}]
    \cup
    [name : {Undefined}, stance : {Undefined},
     startTime : {Undefined} \cup {Some(t) : t \in Times},
     endTime : {Undefined} \cup {Some(t) : t \in Times},
     timesAsText : BOOLEAN]

EmptyBody ==
    [name |-> Undefined, stance |-> Undefined, startTime |-> Undefined,
     endTime |-> Undefined, timesAsText |-> FALSE]

Request(op, songId, partId, body) ==
    [op |-> op, songId |-> songId, partId |-> partId, body |-> body]

NoRequest == Request("none", 0, <<>>, EmptyBody)

\* What the state keeps of a response.
Summary(r) ==
    [op |-> r.op, status |-> r.status, errName |-> r.errName,
     id |-> IF r.body = <<>> THEN <<>> ELSE r.body[1].id]

NoResponse == Summary(Response("none", 0, <<>>, <<>>))

\* loadSongFile as a request for `songId` sees it in the current state.
Loaded(songId) == IF songId = DbSongId THEN songLoaded ELSE [found |-> FALSE]

\* The server takes request rq when no response is pending; the handler's
\* result r becomes the new state.
Served(rq, r) ==
    /\ res = NoResponse
    /\ req' = rq
    /\ songDisk' = r.disk
    /\ songLoaded' = IF r.disk = songDisk THEN songLoaded
                     ELSE loadSongFile(r.disk, DbSongId)
    /\ res' = Summary(r.res)

\* The server after start-up: the downloaded song, no moves file yet, no
\* request served.
IdleServer ==
    /\ songDisk = serializeSongFile(DownloadedSong)
    /\ songLoaded = loadSongFile(serializeSongFile(DownloadedSong), DbSongId)
    /\ req = NoRequest
    /\ res = NoResponse
    /\ nIds = 0
    /\ movesDisk = NoMovesFile
    /\ movesRead = readMoves(NoMovesFile).parsed
    /\ saved = {}

Idle ==
    /\ IdleServer
    /\ songDir = <<>>
    /\ pending = {}
    /\ card = <<>>

Init ==
    /\ Idle
    /\ fin = <<>>
    /\ fout = <<>>

\* Requests to the known song carry every body; one request with the body
\* `probe` goes to a song id the database does not hold.
RequestsWith(bodies, probe) ==
    {<<DbSongId, b>> : b \in bodies} \cup {<<DbSongId + 1, probe>>}

ProbeCreate ==
    [name |-> Some(NameA), startTime |-> Some(0), endTime |-> Some(TimeStep),
     stance |-> Some(S_Left), timesAsText |-> FALSE]
ProbeUpdate == [EmptyBody EXCEPT !.name = Some(NameB)]

CreatePart ==
    /\ nIds < MaxIds
    /\ \E rq \in RequestsWith(CreateBodies, ProbeCreate) :
         LET r == PostPart(songDisk, Loaded(rq[1]), rq[2], IdText(nIds + 1))
         IN /\ Served(Request("createPart", rq[1], <<>>, rq[2]), r)
            /\ nIds' = IF r.res.status = 201 THEN nIds + 1 ELSE nIds
    /\ UNCHANGED <<movesDisk, movesRead, fin, beside, fout, saved>>

UpdatePart ==
    /\ \E partId \in PartIds, rq \in RequestsWith(UpdateBodies, ProbeUpdate) :
         Served(Request("updatePart", rq[1], partId, rq[2]),
                PutPart(songDisk, Loaded(rq[1]), partId, rq[2]))
    /\ UNCHANGED <<nIds, movesDisk, movesRead, fin, beside, fout, saved>>

RemovePart ==
    /\ \E songId \in SongIds, partId \in PartIds :
         Served(Request("deletePart", songId, partId, EmptyBody),
                DeletePart(songDisk, Loaded(songId), partId))
    /\ UNCHANGED <<nIds, movesDisk, movesRead, fin, beside, fout, saved>>

\* The pending response reaches the client.
Deliver ==
    /\ res # NoResponse
    /\ req' = NoRequest
    /\ res' = NoResponse
    /\ UNCHANGED <<songDisk, songLoaded, nIds, movesDisk, movesRead, fin, beside, fout, saved>>

NextParts == CreatePart \/ UpdatePart \/ RemovePart \/ Deliver

SpecParts == Init /\ [][NextParts]_vars

\* The parts stored in the song file.
StoredParts == songLoaded.songFile.parts

\* songLoaded is the parse of the file on disk in every state.
LoadedIsParse == songLoaded = loadSongFile(songDisk, DbSongId)

----------------------------------------------------------------------------
(* The parts API with a client that lists the parts and keeps what the     *)
(* responses told it.                                                      *)

\* A name of one space: a string that is not empty.
NameBlank == <<" ">>

SaveBodies ==
    [name : {Some(NameA), Some(NameBlank), Some(NameTwoLines), Some(NameLongLine)},
     startTime : {Some(t) : t \in Times}, endTime : {Some(t) : t \in Times},
     stance : {Some(S_Left)}, timesAsText : {FALSE}]

RenameBodies ==
    {[EmptyBody EXCEPT !.name = Some(n)] : n \in {NameB, NameBreak}}

\* What the state keeps of the response to a list request: its body as well.
Listing(r) ==
    [op |-> r.op, status |-> r.status, errName |-> r.errName, id |-> <<>>,
     body |-> r.body]

\* The saved items other than the one with this id.
Except(items, id) == {it \in items : it.id # id}

\* createPart: the part of a 201 response is kept as saved.
SavePart ==
    /\ nIds < MaxIds
    /\ \E body \in SaveBodies :
         LET r == PostPart(songDisk, Loaded(DbSongId), body, IdText(nIds + 1))
         IN /\ Served(Request("createPart", DbSongId, <<>>, body), r)
            /\ nIds' = IF r.res.status = 201 THEN nIds + 1 ELSE nIds
            /\ saved' = IF r.res.status = 201
                        THEN saved \cup {r.res.body[1]} ELSE saved
    /\ UNCHANGED <<movesDisk, movesRead, fin, beside, fout>>

\* updatePart with a new name: the client no longer expects the part as it
\* was created.
RenamePart ==
    /\ \E partId \in PartIds, body \in RenameBodies :
         LET r == PutPart(songDisk, Loaded(DbSongId), partId, body)
         IN /\ Served(Request("updatePart", DbSongId, partId, body), r)
            /\ saved' = IF r.res.status = 200 THEN Except(saved, partId)
                        ELSE saved
    /\ UNCHANGED <<nIds, movesDisk, movesRead, fin, beside, fout>>

\* deletePart
DropPart ==
    /\ \E partId \in PartIds :
         LET r == DeletePart(songDisk, Loaded(DbSongId), partId)
         IN /\ Served(Request("deletePart", DbSongId, partId, EmptyBody), r)
            /\ saved' = IF r.res.status = 200 THEN Except(saved, partId)
                        ELSE saved
    /\ UNCHANGED <<nIds, movesDisk, movesRead, fin, beside, fout>>

\* fetchParts
FetchParts ==
    /\ \E songId \in SongIds :
         /\ res = NoResponse
         /\ req' = Request("fetchParts", songId, <<>>, EmptyBody)
         /\ res' = Listing(GetParts(songDisk, Loaded(songId)).res)
    /\ UNCHANGED <<songDisk, songLoaded, nIds, movesDisk, movesRead, fin, beside, fout,
                   saved>>

NextPartsClient == SavePart \/ RenamePart \/ DropPart \/ FetchParts \/ Deliver

SpecPartsClient == Init /\ [][NextPartsClient]_vars

----------------------------------------------------------------------------
(* Claims about the parts API, checked under SpecParts.                    *)

\* The two intervals overlap, as the data model defines it.
Overlapping(aStart, aEnd, bStart, bEnd) == aStart < bEnd /\ aEnd > bStart

\* The step serves a create request for the known song whose fields pass the
\* checks of lines 262-273: a non-empty name, two numbers with
\* endTime > startTime, a stance of the enumeration.
ValidCreate(rq) ==
    /\ rq.op = "createPart"
    /\ rq.songId = DbSongId
    /\ rq.body.name # Undefined /\ rq.body.name[1] # <<>>
    /\ rq.body.startTime # Undefined /\ rq.body.endTime # Undefined
    /\ ~rq.body.timesAsText
    /\ rq.body.endTime[1] > rq.body.startTime[1]
    /\ rq.body.stance # Undefined /\ rq.body.stance[1] \in Stances

\* The stored parts the interval of request rq overlaps.
OverlappedBy(rq) ==
    {i \in DOMAIN StoredParts :
        Overlapping(rq.body.startTime[1], rq.body.endTime[1],
                    StoredParts[i].startTime, StoredParts[i].endTime)}

\* C1: after any sequence of part create, update and delete requests on a song
\* that started without parts, no two parts stored in the song file overlap.
C1_NoTwoStoredPartsOverlap ==
    \A i, j \in DOMAIN StoredParts :
        i # j => ~Overlapping(StoredParts[i].startTime, StoredParts[i].endTime,
                              StoredParts[j].startTime, StoredParts[j].endTime)

\* C2: a create request (with valid fields) whose interval overlaps a stored
\* part is answered 409 with a message naming a stored part it overlaps, and
\* the song file is the same text after the request as before.
C2_OverlappingCreateRejected ==
    [][ (ValidCreate(req') /\ OverlappedBy(req') # {})
        => /\ res'.status = 409
           /\ \E i \in OverlappedBy(req') : StoredParts[i].name = res'.errName
           /\ songDisk' = songDisk ]_vars

\* C2 witness: a 409 for a valid create is pending and names a stored part.
C2_Witness ==
    /\ ValidCreate(req)
    /\ res.status = 409
    /\ \E i \in OverlappedBy(req) : StoredParts[i].name = res.errName

\* C3: a create request with valid fields is rejected as overlapping exactly
\* when some stored part e has candidate.startTime < e.endTime and
\* candidate.endTime > e.startTime; parts that only touch do not conflict.
C3_ConflictIffOverlap ==
    [][ ValidCreate(req')
        => ((res'.status = 409) <=> (OverlappedBy(req') # {})) ]_vars

\* C3 witness: a part was created that starts where a stored part ends.
C3_Witness ==
    /\ ValidCreate(req)
    /\ res.status = 201
    /\ \E i \in DOMAIN StoredParts :
          /\ StoredParts[i].id # res.id
          /\ StoredParts[i].startTime < StoredParts[i].endTime
          /\ StoredParts[i].endTime = req.body.startTime[1]

\* The start and end an update request gives part p, as numbers.
MergedStart(rq, p) ==
    IF rq.body.startTime # Undefined THEN rq.body.startTime[1] ELSE p.startTime
MergedEnd(rq, p) ==
    IF rq.body.endTime # Undefined THEN rq.body.endTime[1] ELSE p.endTime

\* C4: every stored part has endTime > startTime; a create with
\* endTime <= startTime and an update whose merged values have
\* endTime <= startTime are answered 400 and leave the file as it was.
C4_EndAfterStart ==
    [][ /\ \A i \in DOMAIN StoredParts' :
              StoredParts'[i].endTime > StoredParts'[i].startTime
        /\ ( /\ req'.op = "createPart"
             /\ req'.body.startTime # Undefined /\ req'.body.endTime # Undefined
             /\ req'.body.endTime[1] <= req'.body.startTime[1] )
           => (res'.status = 400 /\ songDisk' = songDisk)
        /\ \A i \in DOMAIN StoredParts :
              ( /\ req'.op = "updatePart" /\ req'.songId = DbSongId
                /\ req'.partId = StoredParts[i].id
                /\ MergedEnd(req', StoredParts[i]) <= MergedStart(req', StoredParts[i]) )
              => (res'.status = 400 /\ songDisk' = songDisk) ]_vars

\* The ids of a sequence of parts or moves, in order.
IdsOf(items) == [i \in DOMAIN items |-> items[i].id]

\* The step answers an update of a part with 200.
UpdateSucceeds == req'.op = "updatePart" /\ res'.status = 200

\* C11: a successful update of a part leaves its id as it was: the response
\* carries the id the request addressed, the song file stores a part with
\* that id, and the stored parts have the ids they had before the update.
C11_PartIdStable ==
    [][ UpdateSucceeds
        => /\ res'.id = req'.partId
           /\ \E i \in DOMAIN StoredParts' : StoredParts'[i].id = req'.partId
           /\ Range(IdsOf(StoredParts')) = Range(IdsOf(StoredParts)) ]_vars

\* The parts are in ascending order of startTime.
Ascending(parts) ==
    \A i, j \in DOMAIN parts : i < j => parts[i].startTime <= parts[j].startTime

\* The step answers a create, update or delete of a part with success.
MutationSucceeds ==
    \/ req'.op = "createPart" /\ res'.status = 201
    \/ req'.op \in {"updatePart", "deletePart"} /\ res'.status = 200

\* C13: a successful create, update or delete of a part, on a song file whose
\* parts are in ascending order of startTime, leaves the parts of the song
\* file in ascending order of startTime.
C13_PartsStaySorted ==
    [][ (Ascending(StoredParts) /\ MutationSucceeds)
        => Ascending(StoredParts') ]_vars

\* The step answers a list request for the parts of the known song with 200.
ListSucceeds ==
    req'.op = "fetchParts" /\ req'.songId = DbSongId /\ res'.status = 200

\* C19: a part whose create request was answered 201 is in the list every
\* later list request returns, with the id, name, times and stance of that
\* response, until a delete or an update of that part succeeds.
C19_CreatedPartListed ==
    [][ ListSucceeds => saved \subseteq Range(res'.body) ]_vars

\* The step answers an update of a part with a rejection.
UpdateRejected == req'.op = "updatePart" /\ res'.status \in {400, 404, 409}

\* The update carries no time: it changes the name, the stance, or nothing.
KeepsTimes(rq) ==
    rq.op = "updatePart" /\ rq.body.startTime = Undefined
                         /\ rq.body.endTime = Undefined

\* C22: an update of a part that is rejected leaves the song file as it was,
\* and an update that carries no startTime and no endTime is never rejected as
\* overlapping (409).
C22_RejectedUpdateWritesNothing ==
    [][ /\ UpdateRejected => songDisk' = songDisk
        /\ KeepsTimes(req') => res'.status # 409 ]_vars

\* The fields of a song file other than its parts.
Metadata(song) ==
    [name |-> song.name, artist |-> song.artist, duration |-> song.duration,
     bpm |-> song.bpm, filepath |-> song.filepath, beats |-> song.beats]

\* C29: a successful create, update or delete of a part leaves name,
\* artist, duration, bpm, filepath and beats of the stored song as they
\* were, and every stored part other than the addressed one is still
\* stored with the same id, name, times and stance.
C29_RewriteKeepsTheRest ==
    [][ MutationSucceeds
        => /\ Metadata(songLoaded'.songFile) = Metadata(songLoaded.songFile)
           /\ \A i \in DOMAIN StoredParts :
                 (req'.op = "createPart" \/ StoredParts[i].id # req'.partId)
                 => \E j \in DOMAIN StoredParts' :
                        StoredParts'[j] = StoredParts[i] ]_vars

----------------------------------------------------------------------------
(* The moves API driven by requests, from the first run on.                *)

RawEmpty == <<>>
RawNoName == <<"#", " ">>
RawJab == <<"#", " ", "j", "a", "b", "\n", "A", "n", "y", "t", "h", "i", "n", "g", "\n">>
RawJabUpper == <<"#", " ", "J", "A", "B", "\n", "H", "a", "r", "d", "!", "\n", "[", "p", "u", "n", "c", "h", "]">>
RawKick == <<"#", " ", "k", "i", "c", "k", "\n", "F", "a", "s", "t", ".", "\n", "[", "l", "e", "g", "]", " ", "[", "p", "o", "w", "e", "r", "]">>
\* A block whose description line begins with the header character.
RawHook == <<"#", " ", "h", "o", "o", "k", "\n", "#", "1", " ", "m", "o", "v", "e">>

MoveRaws == {RawEmpty, RawNoName, RawJab, RawJabUpper, RawKick, RawHook}

\* An id no move carries.
UnknownId == <<"z">>

\* The ids a client addresses: those of the moves it can list, and UnknownId.
TargetIds == {movesRead.moves[i].id : i \in DOMAIN movesRead.moves} \cup {UnknownId}

MoveRequest(op, id, raw) == [op |-> op, id |-> id, raw |-> raw]

NoMoveRequest == MoveRequest("none", <<>>, <<>>)

\* The server takes request rq when no response is pending; the handler's
\* result r becomes the new state.
ServedMove(rq, r) ==
    /\ res = NoResponse
    /\ req' = rq
    /\ movesDisk' = r.disk
    /\ movesRead' = IF r.disk = movesDisk THEN movesRead
                    ELSE readMoves(r.disk).parsed
    /\ res' = Summary(r.res)
    /\ UNCHANGED <<songDisk, songLoaded, fin, beside, fout>>

\* parseMoveBlock calls nanoid once, the handler of POST / once more.
CreateMove ==
    /\ nIds + 2 <= MaxMoveIds
    /\ \E raw \in MoveRaws :
         /\ ServedMove(MoveRequest("createMove", <<>>, raw),
                       PostMove(movesDisk, movesRead, raw,
                                IdText(nIds + 1), IdText(nIds + 2)))
         /\ nIds' = IF raw = <<>> THEN nIds ELSE nIds + 2
    /\ UNCHANGED saved

UpdateMove ==
    /\ nIds + 1 <= MaxMoveIds
    /\ \E id \in TargetIds, raw \in MoveRaws :
         /\ ServedMove(MoveRequest("updateMove", id, raw),
                       PutMove(movesDisk, movesRead, id, raw, IdText(nIds + 1)))
         /\ nIds' = IF raw = <<>> THEN nIds ELSE nIds + 1
    /\ UNCHANGED saved

RemoveMove ==
    /\ \E id \in TargetIds :
         ServedMove(MoveRequest("deleteMove", id, <<>>),
                    DeleteMove(movesDisk, movesRead, id))
    /\ UNCHANGED <<nIds, saved>>

\* The tags a list request filters by: none, one in another case than the
\* seed file writes it, one of a block the requests create.
MoveTags == {Undefined, Some(<<"P", "U", "N", "C", "H">>), Some(<<"l", "e", "g">>)}

MoveQuery(tag) == [op |-> "fetchMoves", id |-> <<>>, raw |-> <<>>, tag |-> tag]

FetchMoves ==
    /\ \E tag \in MoveTags :
         LET r == GetMoves(movesDisk, movesRead, tag)
         IN /\ res = NoResponse
            /\ req' = MoveQuery(tag)
            /\ movesDisk' = r.disk
            /\ movesRead' = IF r.disk = movesDisk THEN movesRead
                            ELSE readMoves(r.disk).parsed
            /\ res' = Listing(r.res)
    /\ UNCHANGED <<songDisk, songLoaded, nIds, fin, beside, fout, saved>>

\* The pending response reaches the client.
DeliverMove ==
    /\ res # NoResponse
    /\ req' = NoMoveRequest
    /\ res' = NoResponse
    /\ UNCHANGED <<songDisk, songLoaded, nIds, movesDisk, movesRead, fin, beside, fout, saved>>

NextMoves == CreateMove \/ UpdateMove \/ RemoveMove \/ FetchMoves \/ DeliverMove

SpecMoves == Init /\ [][NextMoves]_vars

\* The same API when no update request is sent.
NextCreateDelete == CreateMove \/ RemoveMove \/ DeliverMove

SpecCreateDelete == Init /\ [][NextCreateDelete]_vars

\* The moves API with a client that lists the moves and keeps the id and the
\* name of each move a create response told it.
SaveMove ==
    /\ nIds + 2 <= MaxMoveIds
    /\ \E raw \in MoveRaws :
         LET r == PostMove(movesDisk, movesRead, raw,
                           IdText(nIds + 1), IdText(nIds + 2))
         IN /\ ServedMove(MoveRequest("createMove", <<>>, raw), r)
            /\ nIds' = IF raw = <<>> THEN nIds ELSE nIds + 2
            /\ saved' = IF r.res.status = 201
                        THEN saved \cup {[id |-> r.res.body[1].id,
                                          name |-> r.res.body[1].name]}
                        ELSE saved

EditMove ==
    /\ nIds + 1 <= MaxMoveIds
    /\ \E id \in TargetIds, raw \in MoveRaws :
         LET r == PutMove(movesDisk, movesRead, id, raw, IdText(nIds + 1))
         IN /\ ServedMove(MoveRequest("updateMove", id, raw), r)
            /\ nIds' = IF raw = <<>> THEN nIds ELSE nIds + 1
            /\ saved' = IF r.res.status = 200 THEN Except(saved, id) ELSE saved

DropMove ==
    /\ \E id \in TargetIds :
         LET r == DeleteMove(movesDisk, movesRead, id)
         IN /\ ServedMove(MoveRequest("deleteMove", id, <<>>), r)
            /\ saved' = IF r.res.status = 200 THEN Except(saved, id) ELSE saved
    /\ UNCHANGED nIds

NextMovesClient == SaveMove \/ EditMove \/ DropMove \/ FetchMoves \/ DeliverMove

SpecMovesClient == Init /\ [][NextMovesClient]_vars

\* The moves of the moves file.
StoredMoves == movesRead.moves

\* movesRead is what readMoves returns in every state.
MovesReadIsParse == movesRead = readMoves(movesDisk).parsed

----------------------------------------------------------------------------
(* Claims about the moves API.                                             *)

\* The name parseMoveBlock reads from the block of request rq.
ParsedName(rq) == parseMoveBlock(rq.raw, <<>>).name

\* The stored moves whose name equals `name` when case is ignored.
NamedLike(name) ==
    {i \in DOMAIN StoredMoves : ToLower(StoredMoves[i].name) = ToLower(name)}

\* C8: a create request whose parsed name equals, case-insensitively, the name
\* of a move already in the (existing, readable) moves file is answered 409 and
\* the moves file is left as it was.
C8_DuplicateCreateRejected ==
    [][ ( /\ req'.op = "createMove"
          /\ movesDisk.exists /\ movesRead.ok
          /\ NamedLike(ParsedName(req')) # {} )
        => (res'.status = 409 /\ movesDisk' = movesDisk) ]_vars

\* C8 witness: a 409 is pending for a create whose name differs from a stored
\* name only in case, on a file that an earlier create has written.
C8_Witness ==
    /\ req.op = "createMove"
    /\ res.status = 409
    /\ movesDisk.exists
    /\ \E i \in DOMAIN StoredMoves :
          StoredMoves[i].id \notin {SEED_MOVES[k].id : k \in DOMAIN SEED_MOVES}
    /\ \E i \in NamedLike(ParsedName(req)) : StoredMoves[i].name # ParsedName(req)

RenamesOnto(rq, i) ==
    /\ rq.op = "updateMove"
    /\ movesRead.ok
    /\ StoredMoves[i].id = rq.id
    /\ Trim(ParsedName(rq)) # <<>>
    /\ NamedLike(ParsedName(rq)) \ {i} # {}

MoveUpdateSucceeds == req'.op = "updateMove" /\ res'.status = 200

\* The move has the name, description and tags of the submitted block.
CarriesBlock(move, raw) ==
    LET block == parseMoveBlock(raw, <<>>)
    IN /\ move.name = block.name
       /\ move.description = block.description
       /\ move.tags = block.tags

\* C12: a successful update of a move stores the name, description and tags
\* of the submitted block under the id the request addressed, at the place
\* the move had, and the moves of the file have the ids they had before.
C12_MoveIdStable ==
    [][ MoveUpdateSucceeds
        => /\ res'.id = req'.id
           /\ IdsOf(StoredMoves') = IdsOf(StoredMoves)
           /\ \A i \in DOMAIN StoredMoves' :
                 StoredMoves'[i].id = req'.id
                    => CarriesBlock(StoredMoves'[i], req'.raw) ]_vars

\* The handler of the request reads the moves file: a list or delete request,
\* or a create or update request that passed the checks of its block.
ReadsMoves(rq) ==
    \/ rq.op \in {"fetchMoves", "deleteMove"}
    \/ /\ rq.op \in {"createMove", "updateMove"}
       /\ rq.raw # <<>>
       /\ Trim(ParsedName(rq)) # <<>>

\* C17: when parseMovesFile raises a fatal error on the moves file it returns
\* no moves, and every request whose handler reads the file is answered 500,
\* without a move or a list of moves, and the moves file is left as it was.
C17_ParseErrorIsServerError ==
    [][ (~movesRead.ok /\ ReadsMoves(req'))
        => /\ movesRead.moves = <<>>
           /\ res'.status = 500
           /\ res'.id = <<>>
           /\ (req'.op = "fetchMoves" => res'.body = <<>>)
           /\ movesDisk' = movesDisk ]_vars

\* A list request answered 500 on a file whose first blocks are closed and
\* whose bad line comes after them.
C17_Witness ==
    /\ req.op = "fetchMoves"
    /\ res.status = 500
    /\ ~movesRead.ok
    /\ movesRead.line > 4
    /\ parseMovesFile(SubSeq(movesDisk.content, 1,
                             IndexOf(movesDisk.content, "@") + 2)).ok

\* The ids and names a list response carries.
Listed(body) == {[id |-> body[i].id, name |-> body[i].name] : i \in DOMAIN body}

NamelessBlock(rq) ==
    /\ rq.op \in {"createMove", "updateMove"}
    /\ rq.raw # <<>>
    /\ Trim(ParsedName(rq)) = <<>>

\* The request is an update, with a block that has a name, of a move the
\* moves file holds.
NamedUpdate(rq) ==
    /\ rq.op = "updateMove"
    /\ rq.raw # <<>>
    /\ Trim(ParsedName(rq)) # <<>>
    /\ movesRead.ok
    /\ \E i \in DOMAIN StoredMoves : StoredMoves[i].id = rq.id

\* C21: a create or update request whose block has an empty name is answered
\* 400 and the moves file is left as it was; an update of a stored move with a
\* block that has a name is answered 200 and the moves file, read again, holds
\* the move under its id with the new name.
C21_EmptyNameRejectedThenFixed ==
    [][ /\ NamelessBlock(req')
           => res'.status = 400 /\ movesDisk' = movesDisk
        /\ NamedUpdate(req')
           => /\ res'.status = 200
              /\ \E i \in DOMAIN StoredMoves' :
                    /\ StoredMoves'[i].id = req'.id
                    /\ StoredMoves'[i].name = ParsedName(req') ]_vars

\* The sequence without its element at index i.
Without(seq, i) == SubSeq(seq, 1, i - 1) \o SubSeq(seq, i + 1, Len(seq))

\* The index of the stored move with this id, 0 when there is none.
StoredAt(id) == FirstIndex({i \in DOMAIN StoredMoves : StoredMoves[i].id = id})

MoveWriteSucceeds ==
    \/ req'.op = "createMove" /\ res'.status = 201
    \/ req'.op = "updateMove" /\ res'.status = 200

----------------------------------------------------------------------------
(* The codecs as functions: an input is drawn, then the functions are      *)
(* applied to it one after the other; fout collects their results.         *)

server == <<songDisk, songLoaded, req, res, nIds, movesDisk, movesRead, saved>>

\* Times of the parts given to serializeSongFile: the grid, and one point
\* before 0 (the create handler accepts any two numbers with end > start).
CodecTimes == Times \cup {0 - TimeStep}

NameAtY == <<"x", " ", "@", "y">>

CodecParts(id) ==
    {p \in [id : {id}, name : {NameA, NameAtY}, startTime : CodecTimes,
            endTime : CodecTimes, stance : {S_Left, S_Centered}] :
        p.endTime > p.startTime}

\* The lists of k parts, the i-th with the i-th id, no two overlapping.
RECURSIVE PartLists(_)
PartLists(k) ==
    IF k = 0 THEN {<<>>}
    ELSE {Append(lp[1], lp[2]) :
            lp \in {x \in PartLists(k - 1) \X CodecParts(IdText(k)) :
                      \A i \in DOMAIN x[1] :
                          ~Overlapping(x[1][i].startTime, x[1][i].endTime,
                                       x[2].startTime, x[2].endTime)}}

SongInputs ==
    {[DownloadedSong EXCEPT !.name = n, !.duration = d, !.bpm = d, !.beats = b,
                            !.parts = l] :
        n \in {<<"S">>, <<"M", "y", " ", "S", "o", "n", "g">>}, d \in {0, 95},
        b \in {<<>>, <<0, TimeStep>>},
        l \in UNION {PartLists(k) : k \in 0..MaxIds}}

InitSongCodec ==
    /\ Idle
    /\ fin \in SongInputs
    /\ fout = <<>>

SerializeSong ==
    /\ fout = <<>>
    /\ fout' = <<serializeSongFile(fin)>>
    /\ UNCHANGED <<server, fin, beside>>

ParseSong ==
    /\ Len(fout) = 1
    /\ fout' = Append(fout, parseSongFile(fout[1]))
    /\ UNCHANGED <<server, fin, beside>>

NextSongCodec == SerializeSong \/ ParseSong

SpecSongCodec == InitSongCodec /\ [][NextSongCodec]_vars

\* The moves parseMoveBlock builds from a block of three lines.
CodecMoves(id) ==
    {parseMoveBlock(<<"#", " ">> \o n \o <<"\n">> \o d \o <<"\n">> \o t, id) :
        n \in {<<"j", "a", "b">>, <<"L", "o", "w", " ", "K", "i", "c", "k">>, <<"h", "o", "o", "k">>},
        d \in {<<>>, <<"F", "a", "s", "t", ".">>, <<"#", "1", " ", "m", "o", "v", "e">>, <<"a", " ", ".">>},
        t \in {<<>>, <<"[", "l", "e", "g", "]", " ", "[", "p", "o", "w", "e", "r", "]">>}}

\* The collections of k moves, the i-th with the i-th id, whose names are
\* pairwise distinct when case is ignored.
RECURSIVE MoveLists(_)
MoveLists(k) ==
    IF k = 0 THEN {<<>>}
    ELSE {Append(lm[1], lm[2]) :
            lm \in {x \in MoveLists(k - 1) \X CodecMoves(IdText(k)) :
                      \A i \in DOMAIN x[1] :
                          ToLower(x[1][i].name) # ToLower(x[2].name)}}

MoveInputs == UNION {MoveLists(k) : k \in 0..MaxMoves}

InitMovesCodec ==
    /\ Idle
    /\ fin \in MoveInputs
    /\ fout = <<>>

SerializeMoves ==
    /\ fout = <<>>
    /\ fout' = <<serializeMovesFile(fin)>>
    /\ UNCHANGED <<server, fin, beside>>

ParseMoves ==
    /\ Len(fout) = 1
    /\ fout' = Append(fout, parseMovesFile(fout[1]))
    /\ UNCHANGED <<server, fin, beside>>

NextMovesCodec == SerializeMoves \/ ParseMoves

SpecMovesCodec == InitMovesCodec /\ [][NextMovesCodec]_vars

\* The strings given to normalizeDescription: every string of at most MaxLen
\* characters over a lower-case letter, an upper-case letter, a punctuation
\* mark and the space.
DescAlphabet == {"a", "B", ".", " "}

DescInputs == UNION {[1..k -> DescAlphabet] : k \in 0..MaxLen}

InitNormalize ==
    /\ Idle
    /\ fin \in DescInputs
    /\ fout = <<>>

NormalizeOnce ==
    /\ fout = <<>>
    /\ fout' = <<normalizeDescription(fin)>>
    /\ UNCHANGED <<server, fin, beside>>

NormalizeAgain ==
    /\ Len(fout) = 1
    /\ fout' = Append(fout, normalizeDescription(fout[1]))
    /\ UNCHANGED <<server, fin, beside>>

NextNormalize == NormalizeOnce \/ NormalizeAgain

SpecNormalize == InitNormalize /\ [][NextNormalize]_vars

\* The texts given to parseMovesFile: every text of at most MaxLines lines,
\* each a header, a line of text, an empty line, a line of one space or an
\* id line; and the five lines of the example of the parser's description.
LineKinds ==
    {<<"#", " ", "f", "o", "o">>, <<"d", "e", "s", "c">>, <<>>, <<" ">>, <<"@", "i", "d", "1">>}

MovesExample ==
    <<"#", " ", "f", "o", "o", "\n", "d", "e", "s", "c", "\n", "t", "a", "g", "s", "\n", "#", " ", "b", "a", "r", "\n", "@", "i", "d", "1">>

MovesTexts ==
    {Join(ls, <<"\n">>) :
        ls \in UNION {[1..n -> LineKinds] : n \in 1..MaxLines}}
    \cup {MovesExample}

InitMovesText ==
    /\ Idle
    /\ fin \in MovesTexts
    /\ fout = <<>>

ParseMovesText ==
    /\ fout = <<>>
    /\ fout' = <<parseMovesFile(fin)>>
    /\ UNCHANGED <<server, fin, beside>>

NextMovesText == ParseMovesText

SpecMovesText == InitMovesText /\ [][NextMovesText]_vars

\* The lines given to parseSongFile in the parts section, each with the part
\* the format '<startTime> <endTime> <Right|Left|Centered> <name> @<id>'
\* reads from it, if it has that shape: two well-formed lines (one with runs
\* of spaces and a name of two words), a line of one word, a negative time, a
\* stance outside the enumeration, a missing id, a missing name, an empty line.
PartTextLines ==
    {[text |-> <<"0", " ", "5", " ", "L", "e", "f", "t", " ", "A", " ", "@", "i", "1">>,
      part |-> <<[startTime |-> 0, endTime |-> 5, stance |-> S_Left, name |-> <<"A">>, id |-> <<"i", "1">>]>>],
     [text |-> <<"5", " ", " ", "1", "0", " ", "C", "e", "n", "t", "e", "r", "e", "d", " ", "B", " ", "C", " ", " ", "@", "i", "2">>,
      part |-> <<[startTime |-> 5, endTime |-> 10, stance |-> S_Centered, name |-> <<"B", " ", "C">>, id |-> <<"i", "2">>]>>],
     [text |-> <<"f", "o", "o">>,
      part |-> <<>>],
     [text |-> <<"-", "5", " ", "0", " ", "L", "e", "f", "t", " ", "A", " ", "@", "i", "3">>,
      part |-> <<>>],
     [text |-> <<"0", " ", "5", " ", "U", "p", " ", "A", " ", "@", "i", "4">>,
      part |-> <<>>],
     [text |-> <<"0", " ", "5", " ", "L", "e", "f", "t", " ", "A">>,
      part |-> <<>>],
     [text |-> <<"0", " ", "5", " ", "L", "e", "f", "t", " ", "@", "i", "5">>,
      part |-> <<>>],
     [text |-> <<>>,
      part |-> <<>>]}

\* The lists of at most MaxPartLines such lines.
PartTexts == UNION {[1..n -> PartTextLines] : n \in 1..MaxPartLines}

\* The song file with the lines ls as its parts section.
SongText(ls) ==
    SerializeWithPartLines(DownloadedSong, [i \in DOMAIN ls |-> ls[i].text])

InitSongText ==
    /\ Idle
    /\ fin \in PartTexts
    /\ fout = <<>>

ParseSongText ==
    /\ fout = <<>>
    /\ fout' = <<parseSongFile(SongText(fin))>>
    /\ UNCHANGED <<server, fin, beside>>

NextSongText == ParseSongText

SpecSongText == InitSongText /\ [][NextSongText]_vars

----------------------------------------------------------------------------
(* Claims about the codecs.                                                *)

\* C5: for a song file s with non-overlapping parts that each have
\* endTime > startTime, parseSongFile(serializeSongFile(s)) has the name,
\* artist, duration, bpm, filepath and beats of s, and the same set of parts.
C5_SongRoundTrip ==
    Len(fout) = 2
    => /\ fout[2].name = fin.name
       /\ fout[2].artist = fin.artist
       /\ fout[2].duration = fin.duration
       /\ fout[2].bpm = fin.bpm
       /\ fout[2].filepath = fin.filepath
       /\ fout[2].beats = fin.beats
       /\ Range(fout[2].parts) = Range(fin.parts)

\* C6: for a collection m of moves (names pairwise distinct, descriptions and
\* tags as parseMoveBlock produces them), parseMovesFile(serializeMovesFile(m))
\* returns the moves of m in order, each with its id, name, description, tags.
C6_MovesRoundTrip ==
    Len(fout) = 2 => (fout[2].ok /\ fout[2].moves = fin)

\* C7: normalizeDescription(normalizeDescription(x)) = normalizeDescription(x)
\* for every string x.
C7_NormalizeIdempotent ==
    Len(fout) = 2 => fout[2] = fout[1]

----------------------------------------------------------------------------
(* Claims about parseMovesFile, checked under SpecMovesText.  The lines of *)
(* the text are classified without running the parser's loop.              *)

TextLines == SplitLines(fin)

IsHeaderLine(l) == StartsWith(Trim(l), <<"#">>)
IsIdLine(l) == StartsWith(Trim(l), <<"@">>)
IsBlankLine(l) == Trim(l) = <<>>
IsContentLine(l) == ~IsHeaderLine(l) /\ ~IsIdLine(l) /\ ~IsBlankLine(l)

\* After the first n lines a block is open: a header among them has no id
\* line after it.
OpenAfter(n) ==
    \E j \in 1..n :
        /\ IsHeaderLine(TextLines[j])
        /\ \A k \in (j + 1)..n : ~IsIdLine(TextLines[k])

\* Line n cannot be read in the state the lines before it leave: a header
\* inside a block, an id line or content outside of one.
Fatal(n) ==
    \/ IsHeaderLine(TextLines[n]) /\ OpenAfter(n - 1)
    \/ IsIdLine(TextLines[n]) /\ ~OpenAfter(n - 1)
    \/ IsContentLine(TextLines[n]) /\ ~OpenAfter(n - 1)

FatalLines == {n \in DOMAIN TextLines : Fatal(n)}

\* The first fatal line, 0 when there is none: the lines before it are read.
FirstFatal == FirstIndex(FatalLines)

ParsedText == fout[1]

\* C14: when a line starting with '#' is read while a block is open,
\* parseMovesFile raises the error 'found new move before @id' and the error
\* names the 1-based number of that line.
C14_HeaderInsideBlock ==
    (Len(fout) = 1 /\ FirstFatal # 0 /\ IsHeaderLine(TextLines[FirstFatal]))
    => /\ ~ParsedText.ok
       /\ ParsedText.error = "new move before @id"
       /\ ParsedText.line = FirstFatal

\* The example: '# foo', 'desc', 'tags', '# bar', '@id1' is rejected at line 4.
C14_Witness ==
    /\ Len(fout) = 1
    /\ fin = MovesExample
    /\ FirstFatal = 4
    /\ ParsedText.line = 4

IdLines == {n \in DOMAIN TextLines : IsIdLine(TextLines[n])}

\* C16: while no block is open, parseMovesFile skips blank lines (a text
\* whose lines outside of blocks are all blank is parsed into its blocks) and
\* raises an error naming the line on a line that starts with '@' and on any
\* other non-blank line that does not start with '#'.
C16_OutsideBlock ==
    Len(fout) = 1
    => /\ (FirstFatal # 0 /\ IsIdLine(TextLines[FirstFatal]))
          => /\ ~ParsedText.ok
             /\ ParsedText.error = "@id without # name"
             /\ ParsedText.line = FirstFatal
       /\ (FirstFatal # 0 /\ IsContentLine(TextLines[FirstFatal]))
          => /\ ~ParsedText.ok
             /\ ParsedText.error = "content outside a move block"
             /\ ParsedText.line = FirstFatal
       /\ (FirstFatal = 0 /\ ~OpenAfter(Len(TextLines)))
          => /\ ParsedText.ok
             /\ Len(ParsedText.moves) = Cardinality(IdLines)

\* A closed block, a blank line that is skipped, then content outside a block.
C16_Witness ==
    /\ Len(fout) = 1
    /\ Len(TextLines) = 4
    /\ IsHeaderLine(TextLines[1]) /\ IsIdLine(TextLines[2])
    /\ IsBlankLine(TextLines[3]) /\ IsContentLine(TextLines[4])
    /\ ParsedText.error = "content outside a move block"
    /\ ParsedText.line = 4

----------------------------------------------------------------------------
(* Claims about parseSongFile, checked under SpecSongText.                 *)

\* The parts of the lines of ls that have the shape of a part line, in the
\* order of the lines.
RECURSIVE PartsOfLines(_)
PartsOfLines(ls) ==
    IF ls = <<>> THEN <<>> ELSE ls[1].part \o PartsOfLines(Tail(ls))

\* C18: parseSongFile drops a non-blank line of the parts section that does
\* not have the shape '<startTime> <endTime> <Right|Left|Centered> <name>
\* @<id>' without an error, and the lines of the section that have it yield
\* their parts, in the order of the file.
C18_MalformedPartLinesDropped ==
    Len(fout) = 1 => fout[1].parts = PartsOfLines(fin)

\* A line that is dropped between two lines that yield their parts.
C18_Witness ==
    /\ Len(fout) = 1
    /\ Len(fin) = 3
    /\ fin[1].part # <<>> /\ fin[3].part # <<>> /\ fin[1] # fin[3]
    /\ fin[2].part = <<>> /\ fin[2].text # <<>>
    /\ fout[1].parts = fin[1].part \o fin[3].part

(***************************************************************************)
(* Snapping a time to the nearest beat, as a function of a time and an    *)
(* ascending list of beats.                                                *)
(***************************************************************************)

\* Largest beat time of the inputs.
MaxBeat == 4

\* Longest list of beats of the inputs.
MaxBeats == 3

Distance(a, b) == IF a < b THEN b - a ELSE a - b

\* The lists of beats a song carries: ascending, possibly empty.
BeatLists ==
    UNION { { b \in [1..n -> 0..MaxBeat] : \A i \in 1..(n - 1) : b[i] <= b[i + 1] }
            : n \in 0..MaxBeats }

\* The loop of the binary search, on 1-based indices: the first index
\* whose beat is not before the time, or the last index.
RECURSIVE SnapSearch(_, _, _, _)
SnapSearch(lo, hi, time, beats) ==
    IF lo < hi
    THEN LET mid == (lo + hi) \div 2
         IN  IF beats[mid] < time
             THEN SnapSearch(mid + 1, hi, time, beats)
             ELSE SnapSearch(lo, mid, time, beats)
    ELSE lo

\* The search without the comparison against the beat before.
snapToBeatUpper(time, beats) ==
    IF Len(beats) = 0 THEN time
    ELSE beats[SnapSearch(1, Len(beats), time, beats)]

snapToBeat(time, beats) ==
    IF Len(beats) = 0 THEN time
    ELSE LET lo == SnapSearch(1, Len(beats), time, beats)
         IN  IF lo > 1 /\ Distance(beats[lo - 1], time) < Distance(beats[lo], time)
             THEN beats[lo - 1]
             ELSE beats[lo]

InitSnap ==
    /\ Idle
    /\ fin \in [time : 0..MaxBeat, beats : BeatLists]
    /\ fout = <<>>

Snap ==
    /\ fout = <<>>
    /\ fout' = <<snapToBeat(fin.time, fin.beats)>>
    /\ UNCHANGED <<server, fin, beside>>

NextSnap == Snap

SpecSnap == InitSnap /\ [][NextSnap]_vars

\* C25: for a non-empty ascending list of beats the result is one of the
\* beats and no beat is nearer to the time than the result; for an empty
\* list the result is the time itself.
C25_SnapNearest ==
    fout # <<>> =>
        IF Len(fin.beats) = 0
        THEN fout[1] = fin.time
        ELSE /\ \E i \in DOMAIN fin.beats : fin.beats[i] = fout[1]
             /\ \A i \in DOMAIN fin.beats :
                    Distance(fout[1], fin.time) <= Distance(fin.beats[i], fin.time)

\* A time strictly between two beats, snapped down to the earlier one.
C25_Witness ==
    /\ fout # <<>>
    /\ Len(fin.beats) >= 2
    /\ fout[1] < fin.time
    /\ \E i \in DOMAIN fin.beats : fin.beats[i] > fin.time

(***************************************************************************)
(* Two downloaded songs: the songs table holds two rows and the songs      *)
(* directory two .song files, which readdirSync lists in either order.     *)
(***************************************************************************)

OtherSongId == 2
OtherFilepath == <<"t", ".", "w", "a", "v">>
OtherSong == [EmptySong EXCEPT !.name = <<"T">>, !.filepath = OtherFilepath]

\* SELECT filepath FROM songs WHERE id = ?
SongsTable == (DbSongId :> DbFilepath) @@ (OtherSongId :> OtherFilepath)

\* A lookup that compares the filepath with the file's filepath field.
findSongFileByField(dir, songFilepath) ==
    FirstIndex({i \in DOMAIN dir : parseSongFile(dir[i]).filepath = songFilepath})

\* The first file of the directory whose content includes the filepath; 0
\* for null.
findSongFilePath(dir, songFilepath) ==
    FirstIndex({i \in DOMAIN dir : Includes(dir[i], songFilepath)})

loadSongFileIn(dir, songId) ==
    IF songId \notin DOMAIN SongsTable THEN [found |-> FALSE, dslPath |-> 0]
    ELSE LET dslPath == findSongFilePath(dir, SongsTable[songId])
         IN IF dslPath = 0 THEN [found |-> FALSE, dslPath |-> 0]
            ELSE [found |-> TRUE, songFile |-> parseSongFile(dir[dslPath]),
                  dslPath |-> dslPath]

\* The content of the file loadSongFile read, and the directory after the
\* handler's writeFileSync(loaded.dslPath, ...), if it got that far.
ReadFile(dir, loaded) == IF loaded.found THEN dir[loaded.dslPath] ELSE <<>>
WrittenDir(dir, loaded, r) ==
    IF loaded.found THEN [dir EXCEPT ![loaded.dslPath] = r.disk] ELSE dir

\* Part names of the requests: a plain one, and one that reads like the
\* audio file of the first song.
DirCreateBodies ==
    {[name |-> Some(n), startTime |-> Some(t), endTime |-> Some(t + TimeStep),
      stance |-> Some(S_Left), timesAsText |-> FALSE] :
        n \in {NameA, DbFilepath}, t \in {0, TimeStep}}

DirUpdateBodies == {[EmptyBody EXCEPT !.name = Some(DbFilepath)]}

DirSongIds == DOMAIN SongsTable \cup {OtherSongId + 1}

DirPartIds ==
    UNION {{parseSongFile(songDir[i]).parts[j].id :
                j \in DOMAIN parseSongFile(songDir[i]).parts} : i \in DOMAIN songDir}
    \cup {UnknownId}

ServedIn(rq, loaded, r) ==
    /\ req' = rq
    /\ res' = Summary(r.res)
    /\ songDir' = WrittenDir(songDir, loaded, r)
    /\ UNCHANGED <<songDisk, songLoaded, movesDisk, movesRead, fin, fout,
                   saved, pending, card>>

CreatePartIn ==
    /\ nIds < MaxIds
    /\ \E songId \in DirSongIds, body \in DirCreateBodies :
         LET loaded == loadSongFileIn(songDir, songId)
             r == PostPart(ReadFile(songDir, loaded), loaded, body, IdText(nIds + 1))
         IN /\ ServedIn(Request("createPart", songId, <<>>, body), loaded, r)
            /\ nIds' = IF r.res.status = 201 THEN nIds + 1 ELSE nIds

UpdatePartIn ==
    /\ \E songId \in DOMAIN SongsTable, partId \in DirPartIds, body \in DirUpdateBodies :
         LET loaded == loadSongFileIn(songDir, songId)
         IN ServedIn(Request("updatePart", songId, partId, body), loaded,
                     PutPart(ReadFile(songDir, loaded), loaded, partId, body))
    /\ UNCHANGED nIds

RemovePartIn ==
    /\ \E songId \in DOMAIN SongsTable, partId \in DirPartIds :
         LET loaded == loadSongFileIn(songDir, songId)
         IN ServedIn(Request("deletePart", songId, partId, EmptyBody), loaded,
                     DeletePart(ReadFile(songDir, loaded), loaded, partId))
    /\ UNCHANGED nIds

InitTwoSongs ==
    /\ IdleServer
    /\ songDir \in {<<serializeSongFile(DownloadedSong), serializeSongFile(OtherSong)>>,
                    <<serializeSongFile(OtherSong), serializeSongFile(DownloadedSong)>>}
    /\ pending = {}
    /\ card = <<>>
    /\ fin = <<>>
    /\ fout = <<>>

NextTwoSongs == CreatePartIn \/ UpdatePartIn \/ RemovePartIn

SpecTwoSongs == InitTwoSongs /\ [][NextTwoSongs]_vars

\* The file written at the download of the song: the one whose filepath
\* field is the filepath of the song's row.
OwnFile(songId) == findSongFileByField(songDir, SongsTable[songId])

PartRequestTo(rq) ==
    /\ rq.op \in {"createPart", "updatePart", "deletePart"}
    /\ rq.songId \in DOMAIN SongsTable

\* C28: a part create, update or delete addressed to a song of the table
\* leaves every file but the song's own unchanged, and the file it reads
\* the song's parts from is the song's own.
C28_OnlyOwnSongFile ==
    [][ PartRequestTo(req')
        => /\ \A i \in DOMAIN songDir :
                 i # OwnFile(req'.songId) => songDir'[i] = songDir[i]
           /\ findSongFilePath(songDir, SongsTable[req'.songId])
                 = OwnFile(req'.songId) ]_vars

(***************************************************************************)
(* Concurrent clients.  A request that has arrived waits in `pending`;     *)
(* the event loop runs one handler at a time, and a handler has no await:  *)
(* its read, validation and write are one step.                            *)
(***************************************************************************)

\* Number of clients, each with at most one request under way.
MaxClients == 2

ConcurrentCreateBodies ==
    {[name |-> Some(n[1]), startTime |-> Some(n[2]), endTime |-> Some(n[2] + TimeStep),
      stance |-> Some(S_Left), timesAsText |-> FALSE] :
        n \in {<<NameA, 0>>, <<NameTwoLines, TimeStep>>}}

ConcurrentRequests ==
    {Request("createPart", DbSongId, <<>>, b) : b \in ConcurrentCreateBodies}
    \cup {Request("updatePart", DbSongId, id, [EmptyBody EXCEPT !.name = Some(NameB)]) :
            id \in Range(IdsOf(StoredParts))}
    \cup {Request("deletePart", DbSongId, id, EmptyBody) :
            id \in Range(IdsOf(StoredParts))}
    \cup {MoveRequest("createMove", <<>>, RawKick)}

\* A request of a client that has none under way reaches the server.
Receive ==
    /\ \E c \in 1..MaxClients, rq \in ConcurrentRequests :
         /\ \A p \in pending : p.client # c
         /\ pending' = pending \cup {[client |-> c, rq |-> rq]}
    /\ UNCHANGED <<songDisk, songLoaded, req, res, nIds, movesDisk, movesRead,
                   fin, fout, saved, songDir, card>>

\* The handler of one waiting part request runs to its end.
HandlePart ==
    /\ \E p \in pending :
         /\ p.rq.op \in {"createPart", "updatePart", "deletePart"}
         /\ p.rq.op = "createPart" => nIds < MaxIds
         /\ LET rq == p.rq
                r == IF rq.op = "createPart"
                     THEN PostPart(songDisk, Loaded(rq.songId), rq.body, IdText(nIds + 1))
                     ELSE IF rq.op = "updatePart"
                     THEN PutPart(songDisk, Loaded(rq.songId), rq.partId, rq.body)
                     ELSE DeletePart(songDisk, Loaded(rq.songId), rq.partId)
            IN /\ req' = rq
               /\ res' = Summary(r.res)
               /\ songDisk' = r.disk
               /\ songLoaded' = IF r.disk = songDisk THEN songLoaded
                                ELSE loadSongFile(r.disk, DbSongId)
               /\ nIds' = IF r.res.status = 201 THEN nIds + 1 ELSE nIds
               /\ saved' = IF r.res.status = 201 THEN saved \cup {r.res.body[1]}
                           ELSE IF r.res.status = 200 THEN Except(saved, rq.partId)
                           ELSE saved
         /\ pending' = pending \ {p}
    /\ UNCHANGED <<movesDisk, movesRead, fin, fout, songDir, card>>

\* The handler of one waiting move request runs to its end.
HandleMove ==
    /\ nIds + 2 <= MaxMoveIds
    /\ \E p \in pending :
         /\ p.rq.op = "createMove"
         /\ LET r == PostMove(movesDisk, movesRead, p.rq.raw,
                              IdText(nIds + 1), IdText(nIds + 2))
            IN /\ req' = p.rq
               /\ res' = Summary(r.res)
               /\ movesDisk' = r.disk
               /\ movesRead' = IF r.disk = movesDisk THEN movesRead
                               ELSE readMoves(r.disk).parsed
         /\ pending' = pending \ {p}
    /\ nIds' = nIds + 2
    /\ UNCHANGED <<songDisk, songLoaded, fin, fout, saved, songDir, card>>

NextConcurrent == Receive \/ HandlePart \/ HandleMove

SpecConcurrent == Init /\ [][NextConcurrent]_vars

Handled == pending' # pending /\ pending' \subseteq pending

\* C27: after every handler run, whatever the order in which the waiting
\* requests are taken, each part a client was told is stored is stored, no
\* two stored parts overlap, and a move that was created has a name no
\* move stored before it carries.
C27_SerialOutcome ==
    [][ Handled
        => /\ saved' \subseteq Range(StoredParts')
           /\ \A i, j \in DOMAIN StoredParts' :
                 i # j => ~partsOverlap(StoredParts'[i], StoredParts'[j])
           /\ (req'.op = "createMove" /\ res'.status = 201)
                 => \A i \in DOMAIN StoredMoves :
                        ~SameName(StoredMoves[i].name, ParsedName(req')) ]_vars

(***************************************************************************)
(* One move card of the moves page (MoveCard in MovesView) and the moves   *)
(* API behind it.  The page has loaded the moves, so the moves file        *)
(* exists.  A request of the card is in flight from the call of the API    *)
(* function until its promise settles.                                     *)
(***************************************************************************)

\* What the user types into the card.
TextNoHeader == <<"x">>
TextKick == <<"#", " ", "k", "i", "c", "k", "\n", "F", "a", "s", "t">>
TextKickTags == <<"#", " ", "k", "i", "c", "k", "\n", "F", "a", "s", "t", "\n", "[", "l", "e", "g", "]">>
CardTexts == {<<>>, TextNoHeader, TextKick, TextKickTags}

\* tagsToDisplay / tagsToStorage: the third line as bracketed tags, and as
\* a comma-separated list.
tagsToDisplay(raw) ==
    LET lines == SplitLines(raw)
        tags == parseTags(lines[3])
    IN IF Len(lines) < 3 THEN raw
       ELSE IF tags = <<>> THEN raw
       ELSE Join([lines EXCEPT ![3] =
                     Join([i \in DOMAIN tags |-> <<"[">> \o tags[i] \o <<"]">>], <<" ">>)],
                 <<"\n">>)

tagsToStorage(raw) ==
    LET lines == SplitLines(raw)
    IN IF Len(lines) < 3 THEN raw
       ELSE Join([lines EXCEPT ![3] = Join(parseTags(lines[3]), <<",", " ">>)],
                 <<"\n">>)

\* text.replace(/#/g, '').trim()
Stripped(text) == Trim(SelectSeq(text, LAMBDA c : c # "#"))

\* The name text.match(/^#\s*(.*)/) captures, trimmed; <<>> without a match.
CardName(text) ==
    IF text = <<>> \/ Head(text) # "#" THEN <<>>
    ELSE LET rest == TrimStart(Tail(text))
         IN IF rest = <<>> THEN <<>> ELSE Trim(SplitLines(rest)[1])

\* A freshly mounted card: useState and useRef initial values.  `typed`,
\* `sentText` and `creates` record what the user last typed, the text of
\* the last create or update the card issued and the number of creates
\* that were answered 201; `stopped` is set once the user edits no more.
Mounted(initialRaw, serverId, old) ==
    [mounted |-> TRUE, raw |-> tagsToDisplay(initialRaw),
     lastSavedRaw |-> tagsToDisplay(initialRaw), idRef |-> serverId,
     isSavingRef |-> FALSE, debounceRef |-> <<>>, inFlight |-> <<>>,
     typed |-> old.typed, sentText |-> old.sentText, creates |-> old.creates,
     stopped |-> old.stopped]

NoHistory == [typed |-> <<>>, sentText |-> <<>>, creates |-> 0, stopped |-> FALSE]

\* The card after the page removed it: its timers are cleared.
Unmounted(c) == [c EXCEPT !.mounted = FALSE, !.debounceRef = <<>>]

\* A request of the card, with the text doSave was called with; the API
\* function is given tagsToStorage(text).
CardRequest(op, id, text) == [op |-> op, id |-> id, text |-> text]

\* doSave without the test of isSavingRef.
doSaveUnguarded(c, text) ==
    IF Stripped(text) = <<>>
    THEN IF c.idRef # <<>>
         THEN [c EXCEPT !.isSavingRef = TRUE,
                        !.inFlight = Append(@, CardRequest("deleteMove", c.idRef, <<>>))]
         ELSE Unmounted(c)
    ELSE IF CardName(text) = <<>> THEN c
    ELSE [c EXCEPT !.isSavingRef = TRUE,
                   !.sentText = <<text>>,
                   !.inFlight = Append(@, IF c.idRef = <<>>
                                          THEN CardRequest("createMove", <<>>, text)
                                          ELSE CardRequest("updateMove", c.idRef, text))]

\* doSave up to its first await: the card with the request it has issued,
\* if any.
doSave(c, text) ==
    IF c.isSavingRef THEN c ELSE doSaveUnguarded(c, text)

\* handleChange: the text changes and the debounce timer is set anew.
EditCard ==
    /\ card.mounted /\ ~card.stopped
    /\ \E value \in CardTexts :
         /\ value # card.raw
         /\ card' = [card EXCEPT !.raw = value, !.debounceRef = <<value>>,
                                 !.typed = <<value>>]
    /\ UNCHANGED <<server, fin, fout, songDir, pending>>

\* The user has typed the last change.
StopEditing ==
    /\ card.mounted /\ ~card.stopped /\ card.typed # <<>>
    /\ card' = [card EXCEPT !.stopped = TRUE]
    /\ UNCHANGED <<server, fin, fout, songDir, pending>>

\* The debounce timer fires, 3 seconds after the last change.
TimerFires ==
    /\ card.mounted /\ card.debounceRef # <<>>
    /\ card' = doSave([card EXCEPT !.debounceRef = <<>>], card.debounceRef[1])
    /\ UNCHANGED <<server, fin, fout, songDir, pending>>

\* handleBlur
BlurCard ==
    /\ card.mounted
    /\ card' = LET c == [card EXCEPT !.debounceRef = <<>>]
               IN IF \/ c.raw # c.lastSavedRaw
                     \/ (Stripped(c.raw) = <<>> /\ c.idRef = <<>>)
                  THEN doSave(c, c.raw) ELSE c
    /\ UNCHANGED <<server, fin, fout, songDir, pending>>

\* The server handles a request of the card and the awaited promise
\* settles: the rest of doSave runs, and the page's onSaved / onDeleted.
\* A created move gives the card a new key, so the page mounts it anew
\* from the entry the server returned.
CardResponse ==
    /\ card.inFlight # <<>>
    /\ \E k \in DOMAIN card.inFlight :
         LET rq == card.inFlight[k]
             textForServer == tagsToStorage(rq.text)
             r == IF rq.op = "createMove"
                  THEN PostMove(movesDisk, movesRead, textForServer,
                                IdText(nIds + 1), IdText(nIds + 2))
                  ELSE IF rq.op = "updateMove"
                  THEN PutMove(movesDisk, movesRead, rq.id, textForServer, IdText(nIds + 1))
                  ELSE DeleteMove(movesDisk, movesRead, rq.id)
             ok == r.res.status \in {200, 201}
             rest == [card EXCEPT !.inFlight = Without(@, k), !.isSavingRef = FALSE]
         IN /\ req' = MoveRequest(rq.op, rq.id, textForServer)
            /\ res' = Summary(r.res)
            /\ movesDisk' = r.disk
            /\ movesRead' = IF r.disk = movesDisk THEN movesRead
                            ELSE readMoves(r.disk).parsed
            /\ nIds' = IF r.res.status = 201 THEN nIds + 2 ELSE nIds
            /\ card' = IF ~ok \/ ~card.mounted THEN rest
                       ELSE IF rq.op = "deleteMove" THEN Unmounted(rest)
                       ELSE IF rq.op = "createMove"
                       THEN [Mounted(MoveEntry(r.res.body[1]).raw, r.res.body[1].id,
                                     [rest EXCEPT !.creates = @ + 1])
                               EXCEPT !.inFlight = rest.inFlight]
                       ELSE [rest EXCEPT !.idRef = r.res.body[1].id,
                                         !.lastSavedRaw = rq.text]
    /\ UNCHANGED <<songDisk, songLoaded, fin, fout, saved, songDir, pending>>

\* The page after loadMoves: a new, empty card, or the card of the first
\* stored move.
InitCard ==
    /\ songDisk = serializeSongFile(DownloadedSong)
    /\ songLoaded = loadSongFile(serializeSongFile(DownloadedSong), DbSongId)
    /\ req = NoRequest
    /\ res = NoResponse
    /\ nIds = 0
    /\ movesDisk = readMoves(NoMovesFile).disk
    /\ movesRead = readMoves(NoMovesFile).parsed
    /\ saved = {}
    /\ songDir = <<>>
    /\ pending = {}
    /\ fin = <<>>
    /\ fout = <<>>
    /\ card \in {Mounted(<<>>, <<>>, NoHistory),
                 Mounted(MoveEntry(SEED_MOVES[1]).raw, SEED_MOVES[1].id, NoHistory)}

NextCard == EditCard \/ StopEditing \/ TimerFires \/ BlurCard \/ CardResponse

SpecCard == InitCard /\ [][NextCard]_vars

\* Timers fire and requests are answered; the user owes nothing.  A
\* response is possible exactly while a request is in flight, so weak
\* fairness of CardResponse is stated on that condition.
SpecCardFair ==
    SpecCard /\ WF_vars(TimerFires) /\ []<>(card.inFlight = <<>>)

\* The user has stopped editing a card whose text is a block with a name.
StoppedOnBlock ==
    /\ card.mounted /\ card.stopped
    /\ Stripped(card.typed[1]) # <<>>
    /\ CardName(card.typed[1]) # <<>>

\* C24: once the user has stopped editing, the card eventually issues a
\* create or update that carries the text typed last, also when an earlier
\* save of the card is in flight when the timer fires or the card loses
\* the focus.
C24_FinalTextSent == StoppedOnBlock ~> (card.sentText = card.typed)

\* C30: at most one request of the card is in flight, and at most one
\* create of the card is answered with a new move.
C30_OneSaveInFlight ==
    /\ Len(card.inFlight) <= 1
    /\ card.creates <= 1

\* A save is in flight while the timer of a later edit has fired (or the
\* card has lost the focus): that save attempt was dropped.
C30_Witness ==
    /\ Len(card.inFlight) = 1
    /\ card.isSavingRef
    /\ card.typed # <<>>
    /\ card.typed[1] # card.inFlight[1].text
    /\ CardName(card.typed[1]) # <<>>
    /\ card.debounceRef = <<>>

====
